---- MODULE Spec2Model ----
(***************************************************************************)
(* A model of cartridge/shop/admin.py: the product change view's save      *)
(* path (ProductAdmin.save_model / save_formset), the change_view redirect *)
(* to a product subclass's admin, and address_pairs.                       *)
(*                                                                         *)
(* One ProductAdmin instance serves every request, so the attributes it    *)
(* keeps (self._product, self._images_formset) are global variables here.  *)
(* save_formset for the variations formset is a straight line of seven     *)
(* calls; each call is one step of the request's program counter, so that  *)
(* the order of the calls and the state between them can be observed.      *)
(***************************************************************************)
EXTENDS Integers, Sequences, FiniteSets, TLC

\* Bounds of the model.
MaxSaves == 2
MaxImageId == 2
MaxProductId == 2
MaxRedirects == 3
MaxFields == 4

None == "None"

\* The requests in flight at most, and the product each one edits.
Requests == {1, 2}
Products == {"p1", "p2"}
ProductOf(r) == IF r = 1 THEN "p1" ELSE "p2"

\* option_fields: the names of ProductVariation's option fields, and the
\* option values that exist for each.
option_fields == {"option1"}
OptionValues == [option1 |-> {"S", "M"}]

\* The fields of the abstract Priced model, kept on the variation and
\* denormalised on the product.
PriceFields == {"unit_price", "sale_price"}
NoPrice == [unit_price |-> 0, sale_price |-> 0]
PriceChoices == {[unit_price |-> 10, sale_price |-> 0],
                 [unit_price |-> 20, sale_price |-> 15]}

\* The inlines of ProductAdmin, in the order the framework saves them.
inlines == <<"ProductImage", "ProductVariation">>

VARIABLES
    SHOP_USE_VARIATIONS,   \* the setting, fixed for a run
    products,              \* product -> [saved, price]
    variations,            \* product -> set of variation records
    images,                \* product -> set of image ids
    nextImageId,           \* the next id an uploaded image gets
    self_product,          \* ProductAdmin._product
    self_images_formset,   \* ProductAdmin._images_formset
    req,                   \* request -> its position, data and history
    saves,                 \* saves started so far
    catalogue,             \* product id -> its content model, for change_view
    browser,               \* the client following a product change URL
    fields,                \* the argument of address_pairs
    pairs                  \* what address_pairs returned

shopVars == <<SHOP_USE_VARIATIONS, products, variations, images, nextImageId,
              self_product, self_images_formset, req, saves>>
viewVars == <<catalogue, browser>>
pairVars == <<fields, pairs>>
vars == <<shopVars, viewVars, pairVars>>

(***************************************************************************)
(* Records and framework pieces (the ORM models, managers and formsets     *)
(* that admin.py calls).                                                   *)
(***************************************************************************)

\* A variation as first stored: no price, no image.
NewVariation(o, d) == [opts |-> o, default |-> d, price |-> NoPrice, image |-> 0]

\* The option values of a variation that has none.
EmptyOptions == [f \in option_fields |-> None]

\* The ascending sequence of a finite set of numbers.
RECURSIVE SortedSeq(_)
SortedSeq(S) ==
    IF S = {} THEN <<>>
    ELSE LET m == CHOOSE x \in S : \A y \in S : x <= y
         IN <<m>> \o SortedSeq(S \ {m})

InFlight(r) == req[r].pc \notin {"idle", "done", "failed"}

\* variations_max_num / variations_extra: with variations in use the inline
\* offers no blank form; without, one blank form and at most one form.
variations_max_num == IF SHOP_USE_VARIATIONS THEN None ELSE "1"
variations_extra == IF SHOP_USE_VARIATIONS THEN 0 ELSE 1

\* The number of blank forms the variation inline shows for a product with
\* n variations.
BlankVariationForms(n) ==
    IF variations_max_num = None THEN variations_extra
    ELSE IF n >= 1 THEN 0 ELSE variations_extra

\* The image forms a request can post for product p: one form per image of
\* the product, each with or without its DELETE key, and a blank form that
\* carries an upload or does not.
ImagePosts(p) ==
    LET ids == SortedSeq(images[p])
        pending == Cardinality({r \in Requests : InFlight(r) /\ req[r].POST.upload})
    IN { [images |-> [n \in 1..Len(ids) |-> [id |-> ids[n], DELETE |-> (ids[n] \in D)]],
          upload |-> u] :
            D \in SUBSET images[p],
            u \in {b \in BOOLEAN : b => nextImageId + pending <= MaxImageId} }

EmptyPOST == [images |-> <<>>, upload |-> FALSE]

\* The attributes of the ProductAdmin instance before any save set them.
NoProduct == [product |-> None, save |-> 0]
NoFormset == [model |-> None, instance |-> None, save |-> 0,
              images |-> <<>>, upload |-> FALSE, saved |-> FALSE]

\* The history of a request: each call it made, the product (and the save
\* that product or formset object came from) the call worked on, the number
\* of variations that product had after the call, and for set_default_images
\* the number of variations that carried an image marked for deletion.
Append2Log(rq, op, target, n, cleared) ==
    [rq EXCEPT !.log = Append(@, [op |-> op, product |-> target.product,
                                  save |-> target.save, n |-> n,
                                  cleared |-> cleared])]

Own(r) == [product |-> ProductOf(r), save |-> req[r].save]

\* save_related: the framework calls save_formset once per inline, in the
\* order of ProductAdmin.inlines, and the request is done after the last.
AfterFormset(rq) ==
    IF rq.inline < Len(inlines)
    THEN [rq EXCEPT !.inline = @ + 1, !.pc = "save_formset"]
    ELSE [rq EXCEPT !.pc = "done"]

\* What a variations formset can carry for a product with the variations V
\* and the images imgs: DELETE marks, at most one edited form (its image
\* chosen among the product's images), and a filled blank form where the
\* inline shows one. The default checkbox is a field of the form only when
\* variations are in use, and a valid formset has at most one form checked.
VariationForms(V, imgs) ==
    LET edits(kept) ==
            {{}} \cup
            {{e} : e \in [opts : {v.opts : v \in kept},
                          default : IF SHOP_USE_VARIATIONS THEN BOOLEAN ELSE {FALSE},
                          price : PriceChoices,
                          image : {0} \cup imgs]}
        blank ==
            {{}} \cup
            IF BlankVariationForms(Cardinality(V)) > 0
            THEN {{[NewVariation(EmptyOptions, FALSE) EXCEPT !.price = pr]} :
                     pr \in PriceChoices}
            ELSE {}
    IN UNION {[del : {d}, edit : edits(V \ d), new : blank] : d \in SUBSET V}

\* The variations formset's save: the variations marked DELETE are removed,
\* the edited form is written, the filled blank form becomes a variation.
SaveVariationsFormset(V, forms) ==
    LET kept == V \ forms.del
        write(v, e) ==
            IF v.opts = e.opts
            THEN [v EXCEPT !.price = e.price, !.image = e.image,
                           !.default = IF SHOP_USE_VARIATIONS THEN e.default ELSE @]
            ELSE IF e.default THEN [v EXCEPT !.default = FALSE] ELSE v
    IN (IF forms.edit = {} THEN kept
        ELSE {write(v, CHOOSE e \in forms.edit : TRUE) : v \in kept})
       \cup forms.new

\* The images formset's save: the images marked DELETE are deleted and an
\* upload becomes a new image of the formset's product. A formset that was
\* saved already has nothing left to write.
ImagesAfterSave(fs) ==
    LET marked == {fs.images[n].id : n \in {k \in DOMAIN fs.images : fs.images[k].DELETE}}
        kept == images[fs.instance] \ marked
    IN IF fs.saved THEN images[fs.instance]
       ELSE IF fs.upload THEN kept \cup {nextImageId} ELSE kept

\* ProductVariationManager.create_from_options: one variation per
\* combination of the selected option values that does not exist yet.
create_from_options(V, options) ==
    IF DOMAIN options = {} THEN V
    ELSE LET combos == {c \in [DOMAIN options -> UNION {options[f] : f \in DOMAIN options}] :
                            \A f \in DOMAIN options : c[f] \in options[f]}
             lookup(c) == [f \in option_fields |->
                             IF f \in DOMAIN options THEN c[f] ELSE None]
         IN V \cup {NewVariation(lookup(c), FALSE) :
                       c \in {d \in combos : \A v \in V : v.opts # lookup(d)}}

\* ProductVariationManager.manage_empty: a default variation is created
\* when the product has none.
manage_empty(V) ==
    IF V = {} THEN {NewVariation(EmptyOptions, TRUE)} ELSE V

\* ProductVariationManager.set_default_images: the images marked for
\* deletion are taken off the variations that carry them, and a variation
\* without an image gets the product's first image that is not marked.
set_default_images(V, imgs, deleted_image_ids) ==
    LET deleted == {deleted_image_ids[n] : n \in DOMAIN deleted_image_ids}
        avail == imgs \ deleted
        first == IF avail = {} THEN 0
                 ELSE CHOOSE i \in avail : \A j \in avail : i <= j
        cleared(v) == IF v.image \in deleted THEN [v EXCEPT !.image = 0] ELSE v
        filled(v) == IF v.image = 0 THEN [v EXCEPT !.image = first] ELSE v
    IN {filled(cleared(v)) : v \in V}

\* Priced.copy_price_fields_to, as Product.copy_default_variation uses it.
copy_price_fields_to(v) == [f \in PriceFields |-> v.price[f]]

\* The variations that carry an image whose id is in a list of ids.
Marked(V, ids) == {v \in V : \E n \in DOMAIN ids : v.image = ids[n]}

(***************************************************************************)
(* ProductAdmin.save_formset's own computations.                           *)
(***************************************************************************)

\* options: the option fields that have a non-empty list in the POST data.
OptionsFromPOST(lists) ==
    LET chosen == {f \in option_fields : lists[f] # {}}
    IN [f \in chosen |-> lists[f]]

\* deleted_images: the value of 'images-N-id' for every key
\* 'images-N-DELETE' of the POST data.
deleted_images(POST) ==
    LET marked == SelectSeq(POST.images, LAMBDA f : f.DELETE)
    IN [n \in 1..Len(marked) |-> marked[n].id]


(***************************************************************************)
(* The save of a product through the change view.                          *)
(***************************************************************************)

IdleRequest == [pc |-> "idle", inline |-> 1, save |-> 0, POST |-> EmptyPOST,
                log |-> <<>>]

InitShop ==
    /\ SHOP_USE_VARIATIONS \in BOOLEAN
    /\ products = [p \in Products |-> [saved |-> FALSE, price |-> NoPrice]]
    /\ variations = [p \in Products |-> {}]
    /\ images = [p \in Products |-> {}]
    /\ nextImageId = 1
    /\ self_product = NoProduct
    /\ self_images_formset = NoFormset
    /\ req = [r \in Requests |-> IdleRequest]
    /\ saves = 0

\* ProductAdmin.save_model: the product is saved and kept on the admin
\* instance. The request's POST data is fixed from here on. The requests
\* that were answered before this one came in are gone.
save_model(r) ==
    /\ ~InFlight(r)
    /\ saves < MaxSaves
    /\ \E post \in ImagePosts(ProductOf(r)) :
          req' = [o \in Requests |->
                    IF o = r THEN [pc |-> "save_formset", inline |-> 1,
                                   save |-> saves + 1, POST |-> post,
                                   log |-> <<>>]
                    ELSE IF InFlight(o) THEN req[o]
                    ELSE IdleRequest]
    /\ products' = [products EXCEPT ![ProductOf(r)].saved = TRUE]
    /\ self_product' = [product |-> ProductOf(r), save |-> saves + 1]
    /\ saves' = saves + 1
    /\ UNCHANGED <<viewVars, pairVars>>
    /\ UNCHANGED <<SHOP_USE_VARIATIONS, variations, images, nextImageId,
                   self_images_formset>>

\* save_formset without the deferral: the images formset is stored and
\* saved in the same call.
save_formset_images_saved_at_once(r) ==
    /\ req[r].pc = "save_formset"
    /\ inlines[req[r].inline] = "ProductImage"
    /\ LET fs == [model |-> "ProductImage", instance |-> ProductOf(r),
                  save |-> req[r].save, images |-> req[r].POST.images,
                  upload |-> req[r].POST.upload, saved |-> FALSE]
       IN /\ images' = [images EXCEPT ![ProductOf(r)] = ImagesAfterSave(fs)]
          /\ nextImageId' = IF fs.upload THEN nextImageId + 1 ELSE nextImageId
          /\ self_images_formset' = [fs EXCEPT !.saved = TRUE]
    /\ req' = [req EXCEPT ![r] =
                  AfterFormset(Append2Log(@, "save:ProductImage", Own(r),
                                          Cardinality(variations[ProductOf(r)]), 0))]
    /\ UNCHANGED <<viewVars, pairVars>>
    /\ UNCHANGED <<SHOP_USE_VARIATIONS, products, variations, self_product, saves>>

\* save_formset called with the images formset: the formset is stored on
\* the admin instance and nothing is saved.
save_formset_images(r) ==
    /\ req[r].pc = "save_formset"
    /\ inlines[req[r].inline] = "ProductImage"
    /\ self_images_formset' =
          [model |-> "ProductImage", instance |-> ProductOf(r),
           save |-> req[r].save, images |-> req[r].POST.images,
           upload |-> req[r].POST.upload, saved |-> FALSE]
    /\ req' = [req EXCEPT ![r] =
                  AfterFormset(Append2Log(@, "store:ProductImage", Own(r),
                                          Cardinality(variations[ProductOf(r)]), 0))]
    /\ UNCHANGED <<viewVars, pairVars>>
    /\ UNCHANGED <<SHOP_USE_VARIATIONS, products, variations, images,
                   nextImageId, self_product, saves>>

\* save_formset without the call of create_from_options.
save_formset_variations_no_create(r) ==
    /\ req[r].pc = "save_formset"
    /\ inlines[req[r].inline] # "ProductImage"
    /\ \E forms \in VariationForms(variations[ProductOf(r)], images[ProductOf(r)]) :
          variations' = [variations EXCEPT ![ProductOf(r)] =
                            SaveVariationsFormset(@, forms)]
    /\ req' = [req EXCEPT ![r] =
                  LET rq == Append2Log(@, "save:ProductVariation", Own(r),
                                       Cardinality(variations'[ProductOf(r)]), 0)
                  IN IF inlines[req[r].inline] = "ProductVariation"
                     THEN [rq EXCEPT !.pc = "manage_empty"]
                     ELSE AfterFormset(rq)]
    /\ UNCHANGED <<viewVars, pairVars>>
    /\ UNCHANGED <<SHOP_USE_VARIATIONS, products, images, nextImageId,
                   self_product, self_images_formset, saves>>

\* save_formset called with another formset: the formset is saved, and for
\* the variations formset the variation manager methods follow.
save_formset_variations(r) ==
    /\ req[r].pc = "save_formset"
    /\ inlines[req[r].inline] # "ProductImage"
    /\ \E forms \in VariationForms(variations[ProductOf(r)], images[ProductOf(r)]) :
          variations' = [variations EXCEPT ![ProductOf(r)] =
                            SaveVariationsFormset(@, forms)]
    /\ req' = [req EXCEPT ![r] =
                  LET rq == Append2Log(@, "save:ProductVariation", Own(r),
                                       Cardinality(variations'[ProductOf(r)]), 0)
                  IN IF inlines[req[r].inline] = "ProductVariation"
                     THEN [rq EXCEPT !.pc = "create_from_options"]
                     ELSE AfterFormset(rq)]
    /\ UNCHANGED <<viewVars, pairVars>>
    /\ UNCHANGED <<SHOP_USE_VARIATIONS, products, images, nextImageId,
                   self_product, self_images_formset, saves>>

\* self._product.variations.create_from_options(options)
CreateFromOptions(r) ==
    /\ req[r].pc = "create_from_options"
    /\ \E lists \in [option_fields -> SUBSET UNION {OptionValues[f] : f \in option_fields}] :
          /\ \A f \in option_fields : lists[f] \subseteq OptionValues[f]
          /\ variations' = [variations EXCEPT ![self_product.product] =
                               create_from_options(@, OptionsFromPOST(lists))]
    /\ req' = [req EXCEPT ![r] =
                  [Append2Log(@, "create_from_options", self_product,
                              Cardinality(variations'[self_product.product]), 0)
                   EXCEPT !.pc = "manage_empty"]]
    /\ UNCHANGED <<viewVars, pairVars>>
    /\ UNCHANGED <<SHOP_USE_VARIATIONS, products, images, nextImageId,
                   self_product, self_images_formset, saves>>

\* save_formset's step for manage_empty with the call left out.
ManageEmpty_not_called(r) ==
    /\ req[r].pc = "manage_empty"
    /\ variations' = variations
    /\ req' = [req EXCEPT ![r] =
                  [Append2Log(@, "manage_empty", self_product,
                              Cardinality(variations'[self_product.product]), 0)
                   EXCEPT !.pc = "set_default_images_1"]]
    /\ UNCHANGED <<viewVars, pairVars>>
    /\ UNCHANGED <<SHOP_USE_VARIATIONS, products, images, nextImageId,
                   self_product, self_images_formset, saves>>

\* self._product.variations.manage_empty()
ManageEmpty(r) ==
    /\ req[r].pc = "manage_empty"
    /\ variations' = [variations EXCEPT ![self_product.product] = manage_empty(@)]
    /\ req' = [req EXCEPT ![r] =
                  [Append2Log(@, "manage_empty", self_product,
                              Cardinality(variations'[self_product.product]), 0)
                   EXCEPT !.pc = "set_default_images_1"]]
    /\ UNCHANGED <<viewVars, pairVars>>
    /\ UNCHANGED <<SHOP_USE_VARIATIONS, products, images, nextImageId,
                   self_product, self_images_formset, saves>>

\* The first set_default_images call made with no deleted images.
SetDefaultImagesFirst_no_deleted(r) ==
    /\ req[r].pc = "set_default_images_1"
    /\ variations' = [variations EXCEPT ![self_product.product] =
                         set_default_images(@, images[self_product.product], <<>>)]
    /\ req' = [req EXCEPT ![r] =
                  [Append2Log(@, "set_default_images", self_product,
                              Cardinality(variations'[self_product.product]), 0)
                   EXCEPT !.pc = "save_images_formset"]]
    /\ UNCHANGED <<viewVars, pairVars>>
    /\ UNCHANGED <<SHOP_USE_VARIATIONS, products, images, nextImageId,
                   self_product, self_images_formset, saves>>

\* self._product.variations.set_default_images(deleted_images), first call
SetDefaultImagesFirst(r) ==
    /\ req[r].pc = "set_default_images_1"
    /\ variations' = [variations EXCEPT ![self_product.product] =
                         set_default_images(@, images[self_product.product],
                                            deleted_images(req[r].POST))]
    /\ req' = [req EXCEPT ![r] =
                  [Append2Log(@, "set_default_images", self_product,
                              Cardinality(variations'[self_product.product]),
                              Cardinality(Marked(variations[self_product.product],
                                                 deleted_images(req[r].POST))))
                   EXCEPT !.pc = "save_images_formset"]]
    /\ UNCHANGED <<viewVars, pairVars>>
    /\ UNCHANGED <<SHOP_USE_VARIATIONS, products, images, nextImageId,
                   self_product, self_images_formset, saves>>

\* super().save_formset(request, form, self._images_formset, change)
SaveStoredImagesFormset(r) ==
    /\ req[r].pc = "save_images_formset"
    /\ images' = [images EXCEPT ![self_images_formset.instance] =
                     ImagesAfterSave(self_images_formset)]
    /\ nextImageId' = IF self_images_formset.upload /\ ~self_images_formset.saved
                      THEN nextImageId + 1 ELSE nextImageId
    /\ self_images_formset' = [self_images_formset EXCEPT !.saved = TRUE]
    /\ req' = [req EXCEPT ![r] =
                  [Append2Log(@, "save:ProductImage",
                              [product |-> self_images_formset.instance,
                               save |-> self_images_formset.save],
                              Cardinality(variations[self_images_formset.instance]), 0)
                   EXCEPT !.pc = "set_default_images_2"]]
    /\ UNCHANGED <<viewVars, pairVars>>
    /\ UNCHANGED <<SHOP_USE_VARIATIONS, products, variations, self_product, saves>>

\* save_formset without the second set_default_images call.
SetDefaultImagesSecond_skipped(r) ==
    /\ req[r].pc = "set_default_images_2"
    /\ variations' = variations
    /\ req' = [req EXCEPT ![r] =
                  [Append2Log(@, "set_default_images", self_product,
                              Cardinality(variations'[self_product.product]), 0)
                   EXCEPT !.pc = "copy_default_variation"]]
    /\ UNCHANGED <<viewVars, pairVars>>
    /\ UNCHANGED <<SHOP_USE_VARIATIONS, products, images, nextImageId,
                   self_product, self_images_formset, saves>>

\* self._product.variations.set_default_images(deleted_images), second call
SetDefaultImagesSecond(r) ==
    /\ req[r].pc = "set_default_images_2"
    /\ variations' = [variations EXCEPT ![self_product.product] =
                         set_default_images(@, images[self_product.product],
                                            deleted_images(req[r].POST))]
    /\ req' = [req EXCEPT ![r] =
                  [Append2Log(@, "set_default_images", self_product,
                              Cardinality(variations'[self_product.product]),
                              Cardinality(Marked(variations[self_product.product],
                                                 deleted_images(req[r].POST))))
                   EXCEPT !.pc = "copy_default_variation"]]
    /\ UNCHANGED <<viewVars, pairVars>>
    /\ UNCHANGED <<SHOP_USE_VARIATIONS, products, images, nextImageId,
                   self_product, self_images_formset, saves>>

\* save_formset's last step with the product left as it was.
CopyDefaultVariation_not_copied(r) ==
    /\ req[r].pc = "copy_default_variation"
    /\ products' = products
    /\ req' = [req EXCEPT ![r] =
                  AfterFormset(Append2Log(@, "copy_default_variation", self_product,
                                          Cardinality(variations[self_product.product]), 0))]
    /\ UNCHANGED <<viewVars, pairVars>>
    /\ UNCHANGED <<SHOP_USE_VARIATIONS, variations, images, nextImageId,
                   self_product, self_images_formset, saves>>

\* self._product.copy_default_variation(): the price fields of the default
\* variation are copied to the product. With no variation marked default
\* there is nothing to copy from: the call either raises, and the save does
\* not complete, or returns with the product as it was.
CopyDefaultVariation(r) ==
    /\ req[r].pc = "copy_default_variation"
    /\ LET defaults == {v \in variations[self_product.product] : v.default}
           rq == Append2Log(req[r], "copy_default_variation", self_product,
                            Cardinality(variations[self_product.product]), 0)
       IN \/ /\ defaults # {}
             /\ products' = [products EXCEPT ![self_product.product].price =
                                copy_price_fields_to(CHOOSE v \in defaults : TRUE)]
             /\ req' = [req EXCEPT ![r] = AfterFormset(rq)]
          \/ /\ defaults = {}
             /\ products' = products
             /\ req' = [req EXCEPT ![r] = AfterFormset(rq)]
          \/ /\ defaults = {}
             /\ products' = products
             /\ req' = [req EXCEPT ![r] = [rq EXCEPT !.pc = "failed"]]
    /\ UNCHANGED <<viewVars, pairVars>>
    /\ UNCHANGED <<SHOP_USE_VARIATIONS, variations, images, nextImageId,
                   self_product, self_images_formset, saves>>

\* A request that starts while no other request is being handled.
save_model_alone(r) ==
    /\ \A o \in Requests \ {r} : ~InFlight(o)
    /\ save_model(r)

(***************************************************************************)
(* change_view: the redirect from the Product admin to the admin of the    *)
(* product's content model.                                                *)
(***************************************************************************)

\* The Product subclasses registered with ProductAdmin or a subclass of it.
ProductSubclasses == {"ProductTopka", "ProductHearth", "ProductPortal",
                      "ProductFacing", "ProductStone"}
RegisteredModels == {"Product"} \cup ProductSubclasses

Absent == "Absent"
ProductIds == 1..MaxProductId

\* product.get_content_model(): the subclass instance of a product that has
\* one. It shares the product's primary key.
get_content_model(object_id) ==
    IF catalogue[object_id] \in ProductSubclasses
    THEN [class |-> catalogue[object_id], id |-> object_id]
    ELSE [class |-> None, id |-> object_id]

\* admin_url(model, "change", id): the change URL of that model's admin.
admin_url(class, id) == [admin |-> class, id |-> id]

\* The framework's change view of a model's admin: the object is rendered,
\* and an id that is no object of the model is a 404.
super_change_view(model, object_id) ==
    IF \/ model = "Product" /\ catalogue[object_id] # Absent
       \/ model # "Product" /\ catalogue[object_id] = model
    THEN [status |-> "rendered", location |-> admin_url(model, object_id)]
    ELSE [status |-> "404", location |-> admin_url(model, object_id)]

\* change_view without the test that the admin's model is Product.
change_view_any_model(model, object_id) ==
    IF catalogue[object_id] = Absent
    THEN [status |-> "404", location |-> admin_url(model, object_id)]
    ELSE IF get_content_model(object_id).class # None
    THEN [status |-> "redirect",
          location |-> admin_url(get_content_model(object_id).class,
                                 get_content_model(object_id).id)]
    ELSE super_change_view(model, object_id)

\* ProductAdmin.change_view on the admin registered for `model`.
change_view(model, object_id) ==
    IF model = "Product" /\ catalogue[object_id] = Absent
    THEN [status |-> "404", location |-> admin_url(model, object_id)]
    ELSE IF model = "Product" /\ get_content_model(object_id).class # None
    THEN [status |-> "redirect",
          location |-> admin_url(get_content_model(object_id).class,
                                 get_content_model(object_id).id)]
    ELSE super_change_view(model, object_id)

IdleBrowser == [status |-> "idle", url |-> admin_url("Product", 1),
                location |-> admin_url("Product", 1), hops |-> 0]

InitView ==
    /\ catalogue \in [ProductIds -> {Absent, None} \cup ProductSubclasses]
    /\ browser = IdleBrowser

\* The client opens the change URL of some registered admin.
OpenChangeUrl ==
    /\ browser.status = "idle"
    /\ \E m \in RegisteredModels, id \in ProductIds :
          browser' = [status |-> "pending", url |-> admin_url(m, id),
                      location |-> admin_url(m, id), hops |-> 0]
    /\ UNCHANGED <<catalogue, shopVars, pairVars>>

\* The admin of the requested URL answers.
ChangeView ==
    /\ browser.status = "pending"
    /\ LET response == change_view(browser.url.admin, browser.url.id)
       IN browser' = [browser EXCEPT !.status = response.status,
                                     !.location = response.location]
    /\ UNCHANGED <<catalogue, shopVars, pairVars>>

\* The client follows a redirect, up to its limit.
FollowRedirect ==
    /\ browser.status = "redirect"
    /\ browser.hops < MaxRedirects
    /\ browser' = [status |-> "pending", url |-> browser.location,
                   location |-> browser.location, hops |-> browser.hops + 1]
    /\ UNCHANGED <<catalogue, shopVars, pairVars>>

\* The client is done with the page.
CloseView ==
    /\ browser.status \in {"rendered", "404"}
    /\ browser' = IdleBrowser
    /\ UNCHANGED <<catalogue, shopVars, pairVars>>

(***************************************************************************)
(* address_pairs                                                           *)
(***************************************************************************)

FieldNames == {"first_name", "last_name", "street"}

Min(a, b) == IF a <= b THEN a ELSE b

\* fields[start::2], start counted from 0 as in the source.
Slice2(s, start) ==
    [i \in 1..((Len(s) - start + 1) \div 2) |-> s[start + 2 * i - 1]]

\* zip(a, b): tuples, as many as the shorter argument has elements.
Zip(a, b) ==
    [i \in 1..Min(Len(a), Len(b)) |-> [kind |-> "tuple", items |-> <<a[i], b[i]>>]]

\* address_pairs without the last field of a list of odd length.
address_pairs_zip_only(fs) == Zip(Slice2(fs, 0), Slice2(fs, 1))

\* address_pairs(fields): an entry of the result is a tuple of two fields or
\* a field by itself.
address_pairs(fs) ==
    LET zipped == Zip(Slice2(fs, 0), Slice2(fs, 1))
    IN IF Len(fs) % 2 = 1
       THEN Append(zipped, [kind |-> "field", items |-> <<fs[Len(fs)]>>])
       ELSE zipped

RECURSIVE SeqsUpTo(_)
SeqsUpTo(n) ==
    IF n = 0 THEN {<<>>}
    ELSE LET shorter == SeqsUpTo(n - 1)
         IN shorter \cup {Append(s, f) : s \in {t \in shorter : Len(t) = n - 1},
                                          f \in FieldNames}

NotCalled == <<[kind |-> "none", items |-> <<>>]>>

InitPairs ==
    /\ fields \in SeqsUpTo(MaxFields)
    /\ pairs = NotCalled

CallAddressPairs ==
    /\ pairs = NotCalled
    /\ pairs' = address_pairs(fields)
    /\ UNCHANGED <<fields, shopVars, viewVars>>

(***************************************************************************)
(* Specifications.                                                         *)
(***************************************************************************)

ShopUnused ==
    /\ SHOP_USE_VARIATIONS = TRUE
    /\ products = [p \in Products |-> [saved |-> FALSE, price |-> NoPrice]]
    /\ variations = [p \in Products |-> {}]
    /\ images = [p \in Products |-> {}]
    /\ nextImageId = 1
    /\ self_product = NoProduct
    /\ self_images_formset = NoFormset
    /\ req = [r \in Requests |-> IdleRequest]
    /\ saves = 0

ViewUnused ==
    /\ catalogue = [id \in ProductIds |-> Absent]
    /\ browser = IdleBrowser

PairsUnused ==
    /\ fields = <<>>
    /\ pairs = NotCalled

\* Product saves handled one after the other: a request starts when no
\* other is being handled, and runs from save_model to its end.
Init == InitShop /\ ViewUnused /\ PairsUnused

Next ==
    \E r \in Requests :
        \/ save_model_alone(r)
        \/ save_formset_images(r)
        \/ save_formset_variations(r)
        \/ CreateFromOptions(r)
        \/ ManageEmpty(r)
        \/ SetDefaultImagesFirst(r)
        \/ SaveStoredImagesFormset(r)
        \/ SetDefaultImagesSecond(r)
        \/ CopyDefaultVariation(r)

Spec == Init /\ [][Next]_vars

\* Product saves handled by concurrent workers that share the admin
\* instance: the steps of two requests interleave.
NextConcurrent ==
    \E r \in Requests :
        \/ save_model(r)
        \/ save_formset_images(r)
        \/ save_formset_variations(r)
        \/ CreateFromOptions(r)
        \/ ManageEmpty(r)
        \/ SetDefaultImagesFirst(r)
        \/ SaveStoredImagesFormset(r)
        \/ SetDefaultImagesSecond(r)
        \/ CopyDefaultVariation(r)

\* SHOP_USE_VARIATIONS at its default.
InitConcurrent == Init /\ SHOP_USE_VARIATIONS = TRUE

SpecConcurrent == InitConcurrent /\ [][NextConcurrent]_vars

\* A client following product change URLs.
InitChangeView == ShopUnused /\ InitView /\ PairsUnused

NextView == OpenChangeUrl \/ ChangeView \/ FollowRedirect \/ CloseView

SpecView == InitChangeView /\ [][NextView]_vars

\* address_pairs applied to a list of fields.
InitAddressPairs == ShopUnused /\ ViewUnused /\ InitPairs

NextPairs == CallAddressPairs

SpecPairs == InitAddressPairs /\ [][NextPairs]_vars

(***************************************************************************)
(* Properties of the product save.                                         *)
(***************************************************************************)

Finished(r) == req[r].pc = "done"

\* The calls save_formset made when it was called with the variations
\* formset, in the order it made them.
VariationsCallOps(r) ==
    LET calls == SelectSeq(req[r].log, LAMBDA e : e.op # "store:ProductImage")
    IN [i \in 1..Len(calls) |-> calls[i].op]

SaveFormsetOrder ==
    <<"save:ProductVariation", "create_from_options", "manage_empty",
      "set_default_images", "save:ProductImage", "set_default_images",
      "copy_default_variation">>

\* C1: save_formset for the variations formset saves the variations formset,
\* then calls create_from_options, manage_empty, set_default_images, saves
\* the images formset, calls set_default_images again and then
\* copy_default_variation: in this order, each once, so the images formset
\* is never saved before the variations formset.
C1_StepsInOrder ==
    \A r \in Requests :
        LET ops == VariationsCallOps(r)
        IN /\ Len(ops) <= Len(SaveFormsetOrder)
           /\ \A i \in 1..Len(ops) : ops[i] = SaveFormsetOrder[i]
           /\ req[r].pc \in {"done", "failed"} => Len(ops) = Len(SaveFormsetOrder)

C1_Witness ==
    \E r \in Requests :
        /\ Finished(r)
        /\ VariationsCallOps(r) = SaveFormsetOrder

\* C2: after a completed product save the product has at least one
\* variation, whatever the formsets and the option selections were.
C2_AtLeastOneVariation ==
    \A r \in Requests : Finished(r) => variations[ProductOf(r)] # {}

\* A completed save whose variations formset deleted every variation the
\* product had, with no option selected.
C2_Witness ==
    \E r \in Requests :
        /\ Finished(r)
        /\ req[r].log[1].n > 0
        /\ req[r].log[2].op = "save:ProductVariation" /\ req[r].log[2].n = 0
        /\ req[r].log[3].op = "create_from_options" /\ req[r].log[3].n = 0
        /\ variations[ProductOf(r)] # {}

IdsOf(ids) == {ids[n] : n \in DOMAIN ids}

\* C4: when the images formset is saved no variation of the product carries
\* an image whose id is in deleted_images, after the save no variation
\* carries an image that does not exist, and deleted_images lists the ids
\* of exactly the image forms that have a DELETE key.
C4_NoDeletedImageOnVariation ==
    \A r \in Requests :
        LET POST == req[r].POST
            keys == {k \in DOMAIN POST.images : POST.images[k].DELETE}
        IN /\ req[r].pc = "save_images_formset" =>
                 \A v \in variations[ProductOf(r)] :
                     v.image \notin IdsOf(deleted_images(POST))
           /\ Finished(r) =>
                 \A v \in variations[ProductOf(r)] :
                     v.image = 0 \/ v.image \in images[ProductOf(r)]
           /\ Len(deleted_images(POST)) = Cardinality(keys)
           /\ IdsOf(deleted_images(POST)) = {POST.images[k].id : k \in keys}

\* The images formset is about to be saved, and set_default_images has just
\* taken an image marked for deletion off a variation.
C4_Witness ==
    \E r \in Requests :
        /\ req[r].pc = "save_images_formset"
        /\ deleted_images(req[r].POST) # <<>>
        /\ req[r].log[Len(req[r].log)].op = "set_default_images"
        /\ req[r].log[Len(req[r].log)].cleared > 0

\* C5: after a completed product save, if the product has an image that was
\* not marked for deletion then every variation of the product has an image.
C5_EveryVariationHasImage ==
    \A r \in Requests :
        Finished(r) =>
            (images[ProductOf(r)] \ IdsOf(deleted_images(req[r].POST)) # {} =>
                \A v \in variations[ProductOf(r)] : v.image # 0)

\* A completed save of a product that had no image, in which an image was
\* uploaded and became the image of the product's variations.
C5_Witness ==
    \E r \in Requests :
        /\ Finished(r)
        /\ req[r].POST.images = <<>>
        /\ req[r].POST.upload
        /\ variations[ProductOf(r)] # {}
        /\ \A v \in variations[ProductOf(r)] : v.image \in images[ProductOf(r)]

\* C6: with SHOP_USE_VARIATIONS off, a product has exactly one variation
\* after every completed save.
C6_SingleVariation ==
    ~SHOP_USE_VARIATIONS =>
        \A r \in Requests :
            Finished(r) => Cardinality(variations[ProductOf(r)]) = 1

\* C7: every call a request makes works on the product that request's
\* save_model stored and on the images formset of that same request.
C7_OwnProductAndFormset ==
    \A r \in Requests :
        \A i \in DOMAIN req[r].log :
            /\ req[r].log[i].product = ProductOf(r)
            /\ req[r].log[i].save = req[r].save

ImageSaves(r) == SelectSeq(req[r].log, LAMBDA e : e.op = "save:ProductImage")

\* The call of save_formset with the images formset: the formset of this
\* save is on the admin instance afterwards, unsaved, and no record changed.
StoreOnly ==
    \A r \in Requests :
        (/\ req[r].pc = "save_formset"
         /\ inlines[req[r].inline] = "ProductImage"
         /\ req'[r] # req[r])
        => /\ UNCHANGED <<products, variations, images, nextImageId>>
           /\ self_images_formset'.save = req[r].save
           /\ ~self_images_formset'.saved

SavedOnceInVariationsCall ==
    \A r \in Requests :
        /\ Len(ImageSaves(r)) <= 1
        /\ Finished(r) => Len(ImageSaves(r)) = 1
        /\ \A i \in DOMAIN req[r].log :
              req[r].log[i].op = "save:ProductImage" =>
                  /\ req[r].log[i].save = req[r].save
                  /\ req[r].log[i].product = ProductOf(r)
                  /\ \E j \in 1..(i - 1) : req[r].log[j].op = "save:ProductVariation"

\* C8: in a product save the images formset is saved exactly once: the call
\* with the images formset only stores it, the save happens in the call
\* with the variations formset, and the formset saved is this save's own.
C8_ImagesFormsetSavedOnce == [][StoreOnly]_vars /\ []SavedOnceInVariationsCall

\* The second save of a run is complete: the formset an earlier save left
\* on the admin instance was replaced and the new one saved.
C8_Witness ==
    \E r \in Requests :
        /\ Finished(r)
        /\ req[r].save > 1
        /\ Len(ImageSaves(r)) = 1
        /\ self_images_formset.save = req[r].save
        /\ self_images_formset.saved

(***************************************************************************)
(* Properties of change_view.                                              *)
(***************************************************************************)

Answered == browser.status \in {"rendered", "404", "redirect"}

\* C9: the Product admin answers the change URL of a product that has a
\* subclass content model with a redirect to that subclass's admin and
\* renders nothing, a subclass's admin never redirects, so a change view is
\* rendered after at most one redirect; a product id that does not exist is
\* a 404.
C9_OneRedirect ==
    /\ browser.hops <= 1
    /\ browser.status = "redirect" =>
          /\ browser.url.admin = "Product"
          /\ catalogue[browser.url.id] \in ProductSubclasses
          /\ browser.location = [admin |-> catalogue[browser.url.id],
                                 id |-> browser.url.id]
    /\ (Answered /\ browser.url.admin = "Product"
                 /\ catalogue[browser.url.id] \in ProductSubclasses)
          => browser.status = "redirect"
    /\ (Answered /\ browser.url.admin # "Product") => browser.status # "redirect"
    /\ (Answered /\ browser.hops = 1) => browser.status = "rendered"
    /\ (Answered /\ catalogue[browser.url.id] = Absent) => browser.status = "404"

\* The client was redirected once and the subclass's admin rendered.
C9_Witness ==
    /\ browser.hops = 1
    /\ browser.status = "rendered"
    /\ browser.url.admin \in ProductSubclasses

(***************************************************************************)
(* Properties of address_pairs.                                            *)
(***************************************************************************)

RECURSIVE Flatten(_)
Flatten(ps) ==
    IF ps = <<>> THEN <<>> ELSE Head(ps).items \o Flatten(Tail(ps))

\* C10: address_pairs(fields) is the pairs (fields[0], fields[1]),
\* (fields[2], fields[3]), ... in order, followed by the last field by
\* itself exactly when the number of fields is odd: ceil(n/2) entries that,
\* flattened, are the list of fields.
C10_AddressPairs ==
    pairs # NotCalled =>
        LET n == Len(fields)
        IN /\ Len(pairs) = (n + 1) \div 2
           /\ \A i \in 1..(n \div 2) :
                 pairs[i] = [kind |-> "tuple",
                             items |-> <<fields[2 * i - 1], fields[2 * i]>>]
           /\ n % 2 = 1 => pairs[Len(pairs)] = [kind |-> "field",
                                                items |-> <<fields[n]>>]
           /\ n % 2 = 0 => \A i \in DOMAIN pairs : pairs[i].kind = "tuple"
           /\ Flatten(pairs) = fields

\* address_pairs returned for a list of three different fields.
C10_Witness ==
    /\ pairs # NotCalled
    /\ Len(fields) = 3
    /\ Cardinality({fields[i] : i \in DOMAIN fields}) = 3
    /\ Len(pairs) = 2

====
